---- MODULE Spec2Model ----
(***************************************************************************)
(* Model of src/main.py: the command-line tool that walks a directory tree *)
(* and reports (audit mode) or "removes" (remove mode) the permissions of  *)
(* a list of inactive users.                                               *)
(*                                                                         *)
(* Strings are sequences of one-character strings, so that str.lower(),    *)
(* str.strip() and the substring test of the code are computed, not        *)
(* assumed.  A path is the sequence of its components; PathStr joins them  *)
(* with "/" as os.path.join does.                                          *)
(***************************************************************************)
EXTENDS Integers, Sequences, FiniteSets, TLC

\* Longest users file (in lines) the model reads.
MaxLines == 2

-----------------------------------------------------------------------------
(* Strings                                                                 *)

s_al   == <<"a", "l">>
s_AL   == <<"A", "L">>
s_bo   == <<"b", "o">>
s_r    == <<"r">>
s_x    == <<"x">>
s_dB   == <<"d", "B">>
s_lk   == <<"l", "k">>
s_al_t == <<"a", "l", ".", "t">>

\* str.lower() on the characters of the model's alphabet.
LowerChar(c) ==
    CASE c = "A" -> "a"
      [] c = "L" -> "l"
      [] c = "B" -> "b"
      [] OTHER   -> c

Lower(s) == [i \in 1..Len(s) |-> LowerChar(s[i])]

\* Python's `u in p` on strings.
IsSubstr(u, p) ==
    \E i \in 0..(Len(p) - Len(u)) : SubSeq(p, i + 1, i + Len(u)) = u

RECURSIVE LStrip(_)
LStrip(s) == IF s # <<>> /\ Head(s) = " " THEN LStrip(Tail(s)) ELSE s

RECURSIVE RStrip(_)
RStrip(s) ==
    IF s # <<>> /\ s[Len(s)] = " " THEN RStrip(SubSeq(s, 1, Len(s) - 1)) ELSE s

\* str.strip()
Strip(s) == RStrip(LStrip(s))

\* os.path.join(root, file): the components joined by "/".
RECURSIVE PathStr(_)
PathStr(p) ==
    IF p = <<>> THEN <<>>
    ELSE IF Len(p) = 1 THEN p[1]
    ELSE p[1] \o <<"/">> \o PathStr(Tail(p))

join(root, file) == Append(root, file)

\* The elements of a sequence.
Range(s) == {s[i] : i \in 1..Len(s)}

NoDup(s) == \A i, j \in 1..Len(s) : i # j => s[i] # s[j]

-----------------------------------------------------------------------------
(* The input files                                                         *)

\* Raw lines a users file may hold (with surrounding blanks, and blank lines).
UserLines == {s_al, <<" ">> \o s_AL \o <<" ">>, <<" ">>}

RECURSIVE SeqsUpTo(_, _)
SeqsUpTo(S, n) ==
    IF n = 0 THEN {<<>>}
    ELSE LET shorter == SeqsUpTo(S, n - 1)
         IN  shorter \cup {Append(q, e) : q \in shorter, e \in S}

UserFiles == SeqsUpTo(UserLines, MaxLines)

\* The exclude files of the model: empty, one glob, and a glob with a negated
\* pattern after it and before it (the last matching pattern decides).
p_glob == <<" ", "*", ".", "t">>
p_neg  == <<"!">> \o s_al_t

ExcludeFiles == {<<>>, <<p_glob>>, <<p_glob, p_neg>>, <<p_neg, p_glob>>}

\* [line.strip() for line in f if line.strip()]
load_users(lines) ==
    LET stripped == [i \in 1..Len(lines) |-> Strip(lines[i])]
    IN  SelectSeq(stripped, LAMBDA l : l # <<>>)

\* One gitwildmatch pattern: "!" negates; a leading "*" is a glob that stays
\* within one path component; anything else is a literal component name.
ParsePattern(line) ==
    LET neg  == line # <<>> /\ Head(line) = "!"
        body == IF neg THEN Tail(line) ELSE line
        glob == body # <<>> /\ Head(body) = "*"
    IN  [include |-> ~neg,
         glob    |-> glob,
         text    |-> IF glob THEN Tail(body) ELSE body]

\* pathspec.PathSpec.from_lines("gitwildmatch", stripped non-blank lines)
load_excludes(lines) ==
    LET stripped == [i \in 1..Len(lines) |-> Strip(lines[i])]
        kept     == SelectSeq(stripped, LAMBDA l : l # <<>>)
    IN  [i \in 1..Len(kept) |-> ParsePattern(kept[i])]

\* A pattern without "/" matches a path when it matches one of its components
\* (the file itself or a directory above it).
ComponentMatches(pat, c) ==
    IF pat.glob
    THEN Len(c) >= Len(pat.text)
         /\ SubSeq(c, Len(c) - Len(pat.text) + 1, Len(c)) = pat.text
    ELSE c = pat.text

PatternMatches(pat, filepath) ==
    \E i \in 1..Len(filepath) : ComponentMatches(pat, filepath[i])

\* PathSpec.match_file: the last pattern that matches decides.
RECURSIVE match_file(_, _)
match_file(spec, filepath) ==
    IF spec = <<>> THEN FALSE
    ELSE LET last == spec[Len(spec)]
         IN  IF PatternMatches(last, filepath) THEN last.include
             ELSE match_file(SubSeq(spec, 1, Len(spec) - 1), filepath)

\* `exclude_spec and exclude_spec.match_file(filepath)`: None and an empty
\* PathSpec are both falsy.
IsExcluded(spec, filepath) ==
    /\ spec.loaded
    /\ Len(spec.patterns) > 0
    /\ match_file(spec.patterns, filepath)

-----------------------------------------------------------------------------
(* The directory tree                                                      *)

\* Grants found on the files of the model: (principal, permission-kind).
G_al == {<<s_al, "owner">>, <<s_bo, "ACL-read">>}
G_bo == {<<s_bo, "owner">>}

Node(kind, name, kids, target, grants, faulty) ==
    [kind |-> kind, name |-> name, kids |-> kids, target |-> target,
     grants |-> grants, faulty |-> faulty]

RootNode == 1

\* r/            (1)  lists kids in the order the file system returns them
\*   <f1>        (2)  a file whose name, grants and readability vary
\*   al/         (3)  a directory named like a user
\*     x         (5)  a file of bo
\*     lk -> dB  (6)  a symbolic link
\*   dB/         (4)
\*     AL        (7)  a file of al
\*     lk -> al  (8)  a symbolic link back: a cycle
Tree(order, f1, faulty1) ==
    (1 :> Node("dir", s_r, order, 0, {}, FALSE))
    @@ (2 :> Node("file", f1[1], <<>>, 0, f1[2], faulty1))
    @@ (3 :> Node("dir", s_al, <<5, 6>>, 0, {}, FALSE))
    @@ (4 :> Node("dir", s_dB, <<8, 7>>, 0, {}, FALSE))
    @@ (5 :> Node("file", s_x, <<>>, 0, G_bo, FALSE))
    @@ (6 :> Node("link", s_lk, <<>>, 4, {}, FALSE))
    @@ (7 :> Node("file", s_AL, <<>>, 0, G_al, FALSE))
    @@ (8 :> Node("link", s_lk, <<>>, 3, {}, FALSE))

Trees ==
    {Tree(order, f1, faulty1) :
        order \in {<<2, 3, 4>>, <<4, 3, 2>>},
        f1 \in {<<s_al_t, G_al>>, <<s_x, G_al>>, <<s_x, G_bo>>},
        faulty1 \in BOOLEAN}

\* os.path.islink
islink(t, n) == t[n].kind = "link"

\* DirEntry.is_dir(): follows a symbolic link to its target.
is_dir(t, n) ==
    \/ t[n].kind = "dir"
    \/ t[n].kind = "link" /\ t[t[n].target].kind = "dir"

\* The directory a path names: a symbolic link is followed to its target.
Resolve(t, n) == IF islink(t, n) THEN t[n].target ELSE n

Reverse(s) == [i \in 1..Len(s) |-> s[Len(s) + 1 - i]]

-----------------------------------------------------------------------------
(* State                                                                   *)

VARIABLES
    fs,             \* the directory tree under the target directory
    excludeFile,    \* args.exclude: [given, lines]
    remove,         \* args.remove
    pc,             \* where main() is
    users,          \* the loaded user names
    exclude_spec,   \* [loaded, patterns]
    stack,          \* os.walk: the directories still to scan
    root,           \* os.walk: the directory being listed
    files,          \* os.walk: the files of root not yet handled
    files_with_permissions,
    console,        \* what print / rprint wrote
    log,            \* the records the root logger emitted
    exit_status,    \* the process status, -1 while running
    visited,        \* history: the file paths the loops iterated over
    inspected,      \* history: the file paths whose try body was entered
    dirs_scanned,   \* history: the directories os.walk listed
    prev            \* history: how the previous invocation ended; its users
                    \* are kept until this run has loaded its own, and
                    \* same_users then tells whether the two lists are equal

vars == <<fs, excludeFile, remove, pc, users, exclude_spec, stack, root, files,
          files_with_permissions, console, log, exit_status, visited,
          inspected, dirs_scanned, prev>>

envVars == <<fs, excludeFile>>
walkVars == <<stack, root, files>>
histVars == <<visited, inspected, dirs_scanned>>

\* logging.basicConfig(level=logging.INFO): the root logger drops DEBUG.
isEnabledFor(level) == level \in {"INFO", "ERROR"}

Emit(l, level, event, path) ==
    IF isEnabledFor(level)
    THEN Append(l, [level |-> level, event |-> event, path |-> path])
    ELSE l

Say(c, kind, path) == Append(c, [kind |-> kind, path |-> path])

NoPrev ==
    [outcome |-> "none", status |-> -1, remove |-> FALSE, users |-> <<>>,
     same_users |-> FALSE, selected |-> <<>>]

Init ==
    /\ fs \in Trees
    /\ excludeFile \in
          {[given |-> FALSE, lines |-> <<>>]}
          \cup {[given |-> TRUE, lines |-> f] : f \in ExcludeFiles}
    /\ remove \in BOOLEAN
    /\ pc = "load_users"
    /\ users = <<>>
    /\ exclude_spec = [loaded |-> FALSE, patterns |-> <<>>]
    /\ stack = <<>>
    /\ root = <<>>
    /\ files = <<>>
    /\ files_with_permissions = <<>>
    /\ console = <<>>
    /\ log = <<>>
    /\ exit_status = -1
    /\ visited = <<>>
    /\ inspected = <<>>
    /\ dirs_scanned = <<>>
    /\ prev = NoPrev

-----------------------------------------------------------------------------
(* main(): set-up                                                          *)

\* sys.exit(1)
SysExit1 == 1

\* main() returning normally
ExitOk == 0

\* Mutation of Abort: the message is printed and the sys.exit(1) is missing.
AbortForgotExit(kind, level) ==
    /\ pc' = "walk"
    /\ exit_status' = exit_status
    /\ console' = Say(console, kind, <<>>)
    /\ log' = Emit(log, level, kind, <<>>)

\* Mutation of Abort: the run stops with the status of a normal return.
AbortExitsZero(kind, level) ==
    /\ pc' = "aborted"
    /\ exit_status' = ExitOk
    /\ console' = Say(console, kind, <<>>)
    /\ log' = Emit(log, level, kind, <<>>)

Abort(kind, level) ==
    /\ pc' = "aborted"
    /\ exit_status' = SysExit1
    /\ console' = Say(console, kind, <<>>)
    /\ log' = Emit(log, level, kind, <<>>)

\* How opening and reading an input file can end: read; FileNotFoundError;
\* another IOError; an exception main() has no except clause for (a
\* UnicodeDecodeError, a malformed pattern), which ends the process with a
\* traceback and status 1.
LoadResults == {"ok", "missing", "unreadable", "traceback"}

\* load_users and load_excludes log the two errors they catch; an exception
\* they do not catch is logged by nobody.
LoadErrorLevel(st) == IF st = "traceback" THEN "NOTSET" ELSE "ERROR"

\* users = load_users(args.users), and its except clauses
LoadUsers ==
    /\ pc = "load_users"
    /\ \E st \in LoadResults, f \in UserFiles :
          IF st = "ok"
          THEN /\ users' = load_users(f)
               /\ log' = Emit(log, "INFO", "loaded_users", <<>>)
               /\ pc' = "load_excludes"
               /\ prev' = [prev EXCEPT
                              !.same_users = (prev.outcome \in {"matches", "no_matches"}
                                              /\ prev.users = load_users(f)),
                              !.users = <<>>]
               /\ UNCHANGED <<console, exit_status>>
          ELSE /\ f = <<>>
               /\ Abort("users_" \o st, LoadErrorLevel(st))
               /\ UNCHANGED <<users, prev>>
    /\ UNCHANGED <<envVars, remove, exclude_spec, walkVars,
                   files_with_permissions, histVars>>

\* exclude_spec = None; if args.exclude: exclude_spec = load_excludes(...)
LoadExcludes ==
    /\ pc = "load_excludes"
    /\ IF ~excludeFile.given
       THEN /\ exclude_spec' = [loaded |-> FALSE, patterns |-> <<>>]
            /\ pc' = "check_dir"
            /\ UNCHANGED <<console, log, exit_status>>
       ELSE \E st \in LoadResults :
               IF st = "ok"
               THEN /\ exclude_spec' =
                          [loaded |-> TRUE,
                           patterns |-> load_excludes(excludeFile.lines)]
                    /\ log' = Emit(log, "INFO", "loaded_excludes", <<>>)
                    /\ pc' = "check_dir"
                    /\ UNCHANGED <<console, exit_status>>
               ELSE /\ Abort("exclude_" \o st, LoadErrorLevel(st))
                    /\ UNCHANGED exclude_spec
    /\ UNCHANGED <<envVars, remove, users, walkVars, files_with_permissions,
                   histVars, prev>>

\* if not os.path.isdir(args.directory): ... sys.exit(1); otherwise the mode
\* is announced and os.walk(directory) starts with the directory itself.
CheckDir ==
    /\ pc = "check_dir"
    /\ \E isdir \in BOOLEAN :
          IF isdir
          THEN /\ console' = Say(console,
                                 IF remove THEN "removing_banner"
                                 ELSE "checking_banner", <<>>)
               /\ stack' = <<[node |-> RootNode, path |-> <<fs[RootNode].name>>]>>
               /\ pc' = "walk"
               /\ UNCHANGED <<log, exit_status>>
          ELSE /\ Abort("directory_not_found", "ERROR")
               /\ UNCHANGED stack
    /\ UNCHANGED <<envVars, remove, users, exclude_spec, root, files,
                   files_with_permissions, histVars, prev>>

-----------------------------------------------------------------------------
(* os.walk(directory), top-down, followlinks=False                         *)

\* Mutation of Descend: os.walk(directory, followlinks=True).
DescendFollowLinks(t, dirs) == dirs

\* Which of the sub-directories of a listing are walked into.
Descend(t, dirs) == SelectSeq(dirs, LAMBDA n : ~islink(t, n))

\* One directory is taken off the stack and listed; its files are handed to
\* the loop body and its sub-directories are put on the stack.
WalkDir ==
    /\ pc = "walk"
    /\ stack # <<>>
    /\ LET top     == stack[Len(stack)]
           kids    == fs[Resolve(fs, top.node)].kids
           dirs    == SelectSeq(kids, LAMBDA n : is_dir(fs, n))
           nondirs == SelectSeq(kids, LAMBDA n : ~is_dir(fs, n))
           down    == Descend(fs, dirs)
           pushed  == [i \in 1..Len(down) |->
                          [node |-> down[i],
                           path |-> join(top.path, fs[down[i]].name)]]
       IN  /\ root' = top.path
           /\ files' = nondirs
           /\ stack' = SubSeq(stack, 1, Len(stack) - 1) \o Reverse(pushed)
           /\ dirs_scanned' = Append(dirs_scanned, top.path)
           /\ pc' = IF nondirs = <<>> THEN "walk" ELSE "files"
    /\ UNCHANGED <<envVars, remove, users, exclude_spec,
                   files_with_permissions, console, log, exit_status,
                   visited, inspected, prev>>

\* Where the inner loop goes after one file.
NextPc(rest) == IF rest = <<>> THEN "walk" ELSE "files"

-----------------------------------------------------------------------------
(* The loop bodies of check_permissions and remove_permissions             *)

\* check_permissions: `if exclude_spec and exclude_spec.match_file(filepath)`
CheckSkips(spec, filepath) == IsExcluded(spec, filepath)

\* Mutation of RemoveSkips: remove_permissions without the exclusion test.
RemoveSkipsNothing(spec, filepath) == FALSE

\* remove_permissions: `if exclude_spec and exclude_spec.match_file(filepath)`
RemoveSkips(spec, filepath) == IsExcluded(spec, filepath)

\* has_permissions = any(user.lower() in filepath.lower() for user in users)
has_permissions(filepath, us) ==
    \E i \in 1..Len(us) : IsSubstr(Lower(us[i]), Lower(PathStr(filepath)))

\* Mutation of remove_condition: the .lower() calls are missing.
remove_condition_exact_case(filepath, us) ==
    \E i \in 1..Len(us) : IsSubstr(us[i], PathStr(filepath))

\* if any(user.lower() in filepath.lower() for user in users):
remove_condition(filepath, us) ==
    \E i \in 1..Len(us) : IsSubstr(Lower(us[i]), Lower(PathStr(filepath)))

\* Mutation of Report: the file name is appended instead of the path.
ReportName(found, filepath, us) == Append(found, <<filepath[Len(filepath)]>>)

\* Mutation of Report: one append for every user that matches, not one for
\* the file.
RECURSIVE ReportPerUser(_, _, _)
ReportPerUser(found, filepath, us) ==
    IF us = <<>> THEN found
    ELSE LET more == ReportPerUser(found, filepath, Tail(us))
         IN  IF IsSubstr(Lower(Head(us)), Lower(PathStr(filepath)))
             THEN Append(more, filepath) ELSE more

\* if has_permissions: files_with_permissions.append(filepath)
Report(found, filepath, us) == Append(found, filepath)

\* Mutation of ExceptContinue: the exception is logged and raised again.
ExceptReraise(rest) == "aborted"

\* except Exception as e: logging.error(...); the for loop goes on.
ExceptContinue(rest) == NextPc(rest)

\* One iteration of the inner loop of check_permissions.
CheckFile ==
    /\ pc = "files"
    /\ ~remove
    /\ files # <<>>
    /\ LET n        == Head(files)
           rest     == Tail(files)
           filepath == join(root, fs[n].name)
       IN  /\ files' = rest
           /\ visited' = Append(visited, filepath)
           /\ IF CheckSkips(exclude_spec, filepath)
              THEN /\ log' = Emit(log, "DEBUG", "skipping_excluded", filepath)
                   /\ pc' = NextPc(rest)
                   /\ UNCHANGED <<files_with_permissions, inspected>>
              ELSE /\ inspected' = Append(inspected, filepath)
                   /\ IF fs[n].faulty
                      THEN /\ log' = Emit(log, "ERROR", "error_checking", filepath)
                           /\ pc' = ExceptContinue(rest)
                           /\ UNCHANGED files_with_permissions
                      ELSE /\ pc' = NextPc(rest)
                           /\ IF has_permissions(filepath, users)
                              THEN /\ files_with_permissions' =
                                         Report(files_with_permissions, filepath, users)
                                   /\ log' = Emit(log, "INFO", "found", filepath)
                              ELSE UNCHANGED <<files_with_permissions, log>>
    /\ UNCHANGED <<envVars, remove, users, exclude_spec, stack, root, console,
                   exit_status, dirs_scanned, prev>>

\* One iteration of the inner loop of remove_permissions.  The body of the
\* `if` prints and logs; the file's permissions are not touched.
RemoveFile ==
    /\ pc = "files"
    /\ remove
    /\ files # <<>>
    /\ LET n        == Head(files)
           rest     == Tail(files)
           filepath == join(root, fs[n].name)
       IN  /\ files' = rest
           /\ visited' = Append(visited, filepath)
           /\ IF RemoveSkips(exclude_spec, filepath)
              THEN /\ log' = Emit(log, "DEBUG", "skipping_excluded", filepath)
                   /\ pc' = NextPc(rest)
                   /\ UNCHANGED <<console, inspected>>
              ELSE /\ inspected' = Append(inspected, filepath)
                   /\ IF fs[n].faulty
                      THEN /\ log' = Emit(log, "ERROR", "error_removing", filepath)
                           /\ pc' = ExceptContinue(rest)
                           /\ UNCHANGED console
                      ELSE /\ pc' = NextPc(rest)
                           /\ IF remove_condition(filepath, users)
                              THEN /\ console' = Say(console, "removing", filepath)
                                   /\ log' = Emit(log, "INFO", "removing", filepath)
                              ELSE UNCHANGED <<console, log>>
    /\ UNCHANGED <<envVars, remove, users, exclude_spec, stack, root,
                   files_with_permissions, exit_status, dirs_scanned, prev>>

-----------------------------------------------------------------------------
(* main(): the end of a run, and the next invocation                       *)

\* The lines main() prints for the files check_permissions returned.
FileLines(found) == [i \in 1..Len(found) |-> [kind |-> "file", path |-> found[i]]]

\* os.walk is exhausted: main() prints its last lines and returns.
Finish ==
    /\ pc = "walk"
    /\ stack = <<>>
    /\ IF remove
       THEN /\ console' = Say(console, "removal_completed", <<>>)
            /\ log' = Emit(log, "INFO", "removal_completed", <<>>)
       ELSE /\ console' =
                  IF files_with_permissions # <<>>
                  THEN Say(console, "found_header", <<>>)
                       \o FileLines(files_with_permissions)
                  ELSE Say(console, "none_found", <<>>)
            /\ log' = Emit(log, "INFO", "check_completed", <<>>)
    /\ pc' = "done"
    /\ exit_status' = ExitOk
    /\ UNCHANGED <<envVars, remove, users, exclude_spec, walkVars,
                   files_with_permissions, histVars, prev>>

\* The paths remove_permissions announced ("Removing permissions ... from").
Removing(c) ==
    LET lines == SelectSeq(c, LAMBDA e : e.kind = "removing")
    IN  [i \in 1..Len(lines) |-> lines[i].path]

\* The files the run selected: returned by check_permissions, or announced by
\* remove_permissions.
Selected == IF remove THEN Removing(console) ELSE files_with_permissions

Outcome ==
    IF pc = "aborted" THEN "aborted"
    ELSE IF Selected # <<>> THEN "matches" ELSE "no_matches"

\* The tool is invoked again on the same tree, with the same --exclude
\* argument; the mode and the users file may differ.
Restart ==
    /\ pc \in {"done", "aborted"}
    /\ prev' = [outcome |-> Outcome, status |-> exit_status, remove |-> remove,
                users |-> users, same_users |-> FALSE, selected |-> Selected]
    /\ remove' \in BOOLEAN
    /\ pc' = "load_users"
    /\ users' = <<>>
    /\ exclude_spec' = [loaded |-> FALSE, patterns |-> <<>>]
    /\ stack' = <<>>
    /\ root' = <<>>
    /\ files' = <<>>
    /\ files_with_permissions' = <<>>
    /\ console' = <<>>
    /\ log' = <<>>
    /\ exit_status' = -1
    /\ visited' = <<>>
    /\ inspected' = <<>>
    /\ dirs_scanned' = <<>>
    /\ UNCHANGED envVars

Next ==
    \/ LoadUsers
    \/ LoadExcludes
    \/ CheckDir
    \/ WalkDir
    \/ CheckFile
    \/ RemoveFile
    \/ Finish
    \/ Restart

Spec == Init /\ [][Next]_vars

-----------------------------------------------------------------------------
(* What the properties speak about                                         *)

\* The files under a real directory, not going through symbolic links:
\* records [path, node].
RECURSIVE FilesUnder(_, _, _)
FilesUnder(t, n, path) ==
    UNION {IF t[k].kind = "dir"
           THEN FilesUnder(t, k, join(path, t[k].name))
           ELSE IF is_dir(t, k) THEN {}
           ELSE {[path |-> join(path, t[k].name), node |-> k]} :
           k \in Range(t[n].kids)}

TreeFiles == FilesUnder(fs, RootNode, <<fs[RootNode].name>>)

TreeFilePaths == {f.path : f \in TreeFiles}

\* The real directories under (and including) a directory, as paths.
RECURSIVE DirsUnder(_, _, _)
DirsUnder(t, n, path) ==
    {path} \cup UNION {IF t[k].kind = "dir"
                       THEN DirsUnder(t, k, join(path, t[k].name))
                       ELSE {} : k \in Range(t[n].kids)}

TreeDirPaths == DirsUnder(fs, RootNode, <<fs[RootNode].name>>)

\* The nodes reachable from a node through listings and link targets.
Succ(t, n) ==
    Range(t[n].kids) \cup (IF islink(t, n) THEN {t[n].target} ELSE {})

RECURSIVE ReachIn(_, _, _)
ReachIn(t, S, k) ==
    IF k = 0 THEN S
    ELSE ReachIn(t, S \cup UNION {Succ(t, n) : n \in S}, k - 1)

\* The symbolic links that close a cycle: following the link leads back to it.
CycleLinks(t) ==
    {n \in DOMAIN t :
        islink(t, n)
        /\ n \in ReachIn(t, {t[n].target}, Cardinality(DOMAIN t))}

\* The revoked identities, compared exactly.
Revoked == Range(users)

RevokedGrants(n) == {g \in fs[n].grants : g[1] \in Revoked}

\* The path is matched by the loaded exclusion patterns.
ExcludedByPatterns(path) ==
    exclude_spec.loaded /\ match_file(exclude_spec.patterns, path)

Records(event) == SelectSeq(log, LAMBDA e : e.event = event)

\* Every path a log record or a console line is about.
RecordedPaths ==
    {log[i].path : i \in 1..Len(log)}
    \cup {console[i].path : i \in 1..Len(console)}

EntryErrors ==
    {log[i].path : i \in {j \in 1..Len(log) :
                             log[j].event \in {"error_checking", "error_removing"}}}

SetupErrorKinds ==
    {"users_missing", "users_unreadable", "users_traceback",
     "exclude_missing", "exclude_unreadable", "exclude_traceback",
     "directory_not_found"}

SetupErrorSeen == \E i \in 1..Len(console) : console[i].kind \in SetupErrorKinds

Final == pc \in {"done", "aborted"}

-----------------------------------------------------------------------------
(* C1 *)

\* C1 (as claimed): after a remove-mode run every file the run targeted has
\* lost its grants of revoked identities, and a second remove-mode run with the
\* same users does not target it again.  (The other grants are trivially kept:
\* no action changes fs.)
C1_RemediationRemovesTargetedGrants ==
    (pc = "done" /\ remove) =>
        /\ \A f \in TreeFiles :
              f.path \in Range(Removing(console)) => RevokedGrants(f.node) = {}
        /\ (prev.outcome = "matches" /\ prev.remove /\ prev.same_users)
              => Range(prev.selected) \cap Range(Removing(console)) = {}

-----------------------------------------------------------------------------
(* C2 *)

-----------------------------------------------------------------------------
(* C3 *)

\* C3 (as claimed): an audit run reports a file (among those it inspected
\* without error) if and only if the file carries a grant of a revoked
\* identity, compared exactly.
C3_MatchIffRevokedGrant ==
    (pc = "done" /\ ~remove) =>
        \A f \in TreeFiles :
            (f.path \in Range(inspected) /\ f.path \notin EntryErrors) =>
                (f.path \in Range(files_with_permissions)
                    <=> RevokedGrants(f.node) # {})

-----------------------------------------------------------------------------
(* C4 *)

\* C4: a set-up error ends the run with status 1 before os.walk has listed
\* any directory and before any file is iterated, reported or announced for
\* removal; and once a set-up error is printed the run is aborted.
C4_SetupErrorsAbortBeforeWalk ==
    /\ pc = "aborted" =>
          /\ exit_status = SysExit1
          /\ SetupErrorSeen
          /\ stack = <<>>
          /\ dirs_scanned = <<>>
          /\ visited = <<>>
          /\ files_with_permissions = <<>>
          /\ Removing(console) = <<>>
    /\ SetupErrorSeen => pc = "aborted"

\* The last set-up step failed: both files loaded, the directory is missing.
C4_Witness ==
    /\ pc = "aborted"
    /\ excludeFile.given
    /\ exclude_spec.loaded
    /\ console[Len(console)].kind = "directory_not_found"

-----------------------------------------------------------------------------
(* C5 *)

\* C5: a failure on one file is recorded for that file and never ends the
\* run: the run is not aborted, the walk can always take its next step, and a
\* finished run has iterated over every file of the tree.
C5_EntryFailureNeverAborts ==
    /\ EntryErrors # {} => pc # "aborted"
    /\ EntryErrors \subseteq Range(inspected)
    /\ \A f \in TreeFiles :
          (f.path \in Range(inspected) /\ fs[f.node].faulty)
              => f.path \in EntryErrors
    /\ pc \in {"walk", "files"} =>
          ENABLED (WalkDir \/ CheckFile \/ RemoveFile \/ Finish)
    /\ pc = "done" => Range(visited) = TreeFilePaths

\* A finished run in which a file failed and other files were handled after it.
C5_Witness ==
    /\ pc = "done"
    /\ \E i \in 1..Len(visited) :
          visited[i] \in EntryErrors /\ i < Len(visited)

-----------------------------------------------------------------------------
(* C6 *)

CycleReports ==
    Len(Records("CycleDetected"))
    + Len(SelectSeq(console, LAMBDA e : e.kind = "CycleDetected"))

-----------------------------------------------------------------------------
(* C7 *)

\* C7 (as claimed): two runs that end with different outcomes ("aborted",
\* "no_matches", "matches") end with different status values.
C7_ThreeDistinctStatuses ==
    (Final /\ prev.outcome # "none" /\ prev.outcome # Outcome)
        => prev.status # exit_status

\* C7 (amended): the status tells an aborted run (1) from a completed run (0)
\* and nothing else: two runs end with the same status exactly when both are
\* aborted or both completed, whether or not files were matched.
C7_StatusTellsAbortOnly ==
    Final =>
        /\ exit_status = IF Outcome = "aborted" THEN SysExit1 ELSE ExitOk
        /\ prev.outcome # "none" =>
              ((prev.status = exit_status)
                  <=> ((prev.outcome = "aborted") <=> (Outcome = "aborted")))

\* A completed run without matches after a completed run with matches: two
\* outcomes, one status.
C7_Witness ==
    /\ pc = "done"
    /\ Outcome = "no_matches"
    /\ prev.outcome = "matches"
    /\ prev.status = exit_status

-----------------------------------------------------------------------------
(* C8 *)

\* C8: every path check_permissions reports is a path the walk iterated
\* over, which is a file of the tree under the root; the reported files are
\* never more than the iterated ones.
C8_MatchedSubsetOfScanned ==
    /\ Range(files_with_permissions) \subseteq Range(visited)
    /\ Range(visited) \subseteq TreeFilePaths
    /\ Len(files_with_permissions) <= Len(visited)

\* A finished audit that reported some, not all, of the files it iterated over.
C8_Witness ==
    /\ pc = "done"
    /\ ~remove
    /\ files_with_permissions # <<>>
    /\ Len(files_with_permissions) < Len(visited)

-----------------------------------------------------------------------------
(* C9 *)

\* C9: within one run no path is iterated over, inspected, reported or
\* announced for removal twice.
C9_EachPathOnce ==
    /\ NoDup(visited)
    /\ NoDup(inspected)
    /\ NoDup(files_with_permissions)
    /\ NoDup(Removing(console))

\* A finished audit with two user names that both match a reported file.
C9_Witness ==
    /\ pc = "done"
    /\ ~remove
    /\ Len(users) = 2
    /\ \E i \in 1..Len(files_with_permissions) :
          \A u \in 1..Len(users) :
              IsSubstr(Lower(users[u]), Lower(PathStr(files_with_permissions[i])))

-----------------------------------------------------------------------------
(* C10 *)

\* C10: a completed audit run and a completed remove run on the same tree,
\* with the same users and the same exclude file, select the same paths in
\* the same order.
C10_AuditAndRemoveSelectSame ==
    (/\ pc = "done"
     /\ prev.outcome \in {"matches", "no_matches"}
     /\ prev.remove # remove
     /\ prev.same_users)
        => prev.selected = Selected

\* A remove run after an audit run with the same inputs, in which two files
\* were selected and at least one was passed over.
C10_Witness ==
    /\ pc = "done"
    /\ remove
    /\ prev.outcome = "matches"
    /\ ~prev.remove
    /\ prev.same_users
    /\ Len(Selected) >= 2
    /\ Len(Selected) < Len(visited)

====
